---- MODULE Spec2Model ----
(***************************************************************************)
(* A model of the patchy-disc demo driver (demos/patchy_disc_env.cpp):     *)
(* the set-up sequence executed by the PatchyDiscEnv constructor and by    *)
(* main, the 1000-iteration reporting loop, and the cell list / particle   *)
(* store that the Initialise and PatchyDisc collaborators maintain.        *)
(*                                                                         *)
(* Lengths are fixed-point numbers in hundredths of a particle diameter.   *)
(***************************************************************************)
EXTENDS Integers, Sequences, FiniteSets

(***************************************************************************)
(* Simulation parameters (main, lines 165-172).                            *)
(***************************************************************************)
\* The particle diameter is one (line 185); 1.0 is written as 100.
Unit == 100

\* unsigned int dimension = 2;
dimension == 2

\* unsigned int nParticles = 1000;
nParticles == 1000

\* double interactionRange = 0.1;  (in hundredths)
interactionRange == 10

\* double density = 0.2;  (in hundredths)
density == 20

\* #define M_PI 3.14159265...  (in ten-thousandths)
PiE4 == 31416

\* for (unsigned int i=0;i<1000;i++)
nBatches == 1000

\* printf(..., ((double) (i+1)*1000), ...)
sweepsPerBatch == 1000

(***************************************************************************)
(* Integer helpers for the fixed-point arithmetic.                         *)
(***************************************************************************)
Min(a, b) == IF a < b THEN a ELSE b

Max(a, b) == IF a > b THEN a ELSE b

\* floor(sqrt(v))
ISqrt(v) == CHOOSE r \in 0..10000 : r * r <= v /\ (r + 1) * (r + 1) > v

\* floor(a * s / r) for r > 0, without forming the product a * s.
QuotBy(r, a, s) == (a \div r) * s + ((a % r) * s) \div r

\* r^3 <= a * s.
CubeLeq(r, a, s) ==
    \/ r = 0
    \/ r > 0 /\ a \div r > r * r
    \/ r > 0 /\ a \div r <= r * r /\ QuotBy(r, a, s) >= r * r

\* r^3 = a * s.
CubeEq(r, a, s) ==
    /\ r > 0
    /\ a \div r <= r * r
    /\ QuotBy(r, a, s) = r * r
    /\ ((a % r) * s) % r = 0

\* floor(std::pow(x, 1.0/3.0)) for x = a * s.  The exponent 1.0/3.0 is a double
\* slightly below one third, so on a perfect cube n^3 with n >= 4 the result lies
\* just below n.
PowThird(a, s) ==
    LET r == CHOOSE n \in 0..3000 : CubeLeq(n, a, s) /\ ~CubeLeq(n + 1, a, s)
    IN  IF r >= 4 /\ CubeEq(r, a, s) THEN r - 1 ELSE r

\* floor(std::pow(v, 1.0/3.0))
ICbrt(v) == PowThird(v, 1)

\* std::pow((nParticles*M_PI)/(4.0*density), 1.0/2.0), or
\* std::pow((nParticles*M_PI)/(6.0*density), 1.0/3.0) when dimension is not 2;
\* in hundredths (the quotient is in hundredths, so it is scaled by Unit under
\* the square root and by Unit*Unit under the cube root).
baseLength ==
    IF dimension = 2
    THEN ISqrt(((nParticles * PiE4) \div (4 * density)) * Unit)
    ELSE PowThird((nParticles * PiE4) \div (6 * density), Unit * Unit)

\* for (i < dimension) boxSize.push_back(baseLength);
BoxSizeVec == [d \in 1..dimension |-> baseLength]

\* A cut-off that leaves out the patch range.
cutOffWithoutRange == Unit

\* A cut-off built from the particle radius instead of its diameter.
cutOffRadius == Unit \div 2 + interactionRange \div 2

\* cells.initialise(box.boxSize, 1 + 0.5*interactionRange): the cut-off.
cutOff == Unit + interactionRange \div 2

\* vmmc += 10*nParticles;
movesPerBatch == 10 * nParticles

(***************************************************************************)
(* The driver's state.                                                     *)
(***************************************************************************)
VARIABLES
    entry,           \* the function under execution: "main", or "execute" when a
                     \* caller constructs a PatchyDiscEnv and calls execute()
    pc,              \* the statement the driver executes next
    ip,              \* position in the set-up sequence while pc = "setup"
    i,               \* the loop counter of the reporting loop
    events,          \* set-up statements executed so far, in order
    vmdCalls,        \* number of io.vmdScript calls made
    boxSize,         \* per owner: the boxSize vector (<<>> before it is built)
    numCells,        \* per owner: cells per dimension (<<>> before initialise)
    movesRequested,  \* elementary moves requested from the engine so far
    batches,         \* number of vmmc += ... calls made
    stepped,         \* the engine object the latest batch was requested from
    traj,            \* the frames held by the xyz trajectory file
    flagLog,         \* the isFirstFrame argument of every appendXyzTrajectory call
    truncations,     \* number of times the trajectory file was truncated/created
    report,          \* the sweeps value of every report line printed
    failedBatch,     \* the batch in which the engine failed (0: none)
    phase,           \* cell-list scenario: "placing", "placed" or "initError"
    placed,          \* cell-list scenario: particles placed so far
    pos,             \* cell-list scenario: particle index -> position
    bucket,          \* cell-list scenario: cell coordinate -> set of particle indices
    tries,           \* cell-list scenario: rejected candidates for the current particle
    lastMove         \* cell-list scenario: <<>> or <<particle, crossed a cell boundary>>
                     \* for the latest applyPostMoveUpdates call

driverVars ==
    <<entry, pc, ip, i, events, vmdCalls, boxSize, numCells, movesRequested, batches,
      stepped, traj, flagLog, truncations, report, failedBatch>>

cellVars == <<phase, placed, pos, bucket, tries, lastMove>>

vars == <<driverVars, cellVars>>

\* "env": the objects local to the PatchyDiscEnv constructor (line 160 runs it);
\* "main": the objects of main itself.
Owners == {"env", "main"}

\* The four callbacks of vmmc::CallbackFunctions, in registration order.
CallbackNames ==
    <<"energyCallback", "pairEnergyCallback", "interactionsCallback", "postMoveCallback">>

\* The set-up statements of one owner in source order (constructor lines 57-134,
\* main lines 185-264).
SetupOf(o) ==
    << <<o, "boxSize">>, <<o, "vmdScript">>, <<o, "cellsInitialise">>,
       <<o, "patchyDisc">>, <<o, "initialiseRandom">>, <<o, "copyCoordinates">>,
       <<o, CallbackNames[1]>>, <<o, CallbackNames[2]>>,
       <<o, CallbackNames[3]>>, <<o, CallbackNames[4]>>, <<o, "vmmc">> >>

\* A reordering in which main constructs the engine before the callbacks are set.
SetupProgramEngineFirst ==
    SetupOf("env") \o
    << <<"main", "boxSize">>, <<"main", "vmdScript">>, <<"main", "cellsInitialise">>,
       <<"main", "patchyDisc">>, <<"main", "initialiseRandom">>,
       <<"main", "copyCoordinates">>, <<"main", "vmmc">>,
       <<"main", CallbackNames[1]>>, <<"main", CallbackNames[2]>>,
       <<"main", CallbackNames[3]>>, <<"main", CallbackNames[4]>> >>

\* main: `PatchyDiscEnv env (3,4);` runs the constructor, then main's own set-up.
SetupProgram == SetupOf("env") \o SetupOf("main")

\* The set-up that precedes the loop: all of main's for main; for execute() only
\* the constructor of the PatchyDiscEnv it is called on.
ProgramOf(e) == IF e = "main" THEN SetupProgram ELSE SetupOf("env")

\* The engine object `vmmc` names in the loop: main's local engine (line 263), or
\* in execute() the member of line 42, which is default-constructed: the engine
\* the constructor builds at line 133 is a local that shadows the member.
SteppedEngine(e) == IF e = "main" THEN <<"main", "vmmc">> ELSE <<"env", "member">>

\* The statements of the loop body in source order (lines 270, 273-274, 277 of
\* main; lines 142, 145-146, 149 of execute).
LoopBodyReportFirst == <<"step", "report", "append">>

LoopBody == <<"step", "append", "report">>

\* The statement after s in the loop body; "next" is the loop's i++ and test.
After(s) ==
    LET k == CHOOSE j \in 1..Len(LoopBody) : LoopBody[j] = s
    IN  IF k = Len(LoopBody) THEN "next" ELSE LoopBody[k + 1]

\* for (unsigned int i=0; i<1000; i++): where control goes for counter value n.
LoopTest(n) == IF n < nBatches THEN LoopBody[1] ELSE "complete"

(***************************************************************************)
(* Collaborators whose code is outside this file.                          *)
(***************************************************************************)
\* CellList::initialise: floor(boxSize[d] / cutoff) cells per dimension, minimum 1.
CellListInitialise(box, cutoff) ==
    [d \in DOMAIN box |-> Max(1, box[d] \div cutoff)]

\* InputOutput::appendXyzTrajectory: isFirstFrame truncates/creates the file.
AppendXyzTrajectory(file, frame, isFirstFrame) ==
    IF isFirstFrame THEN <<frame>> ELSE Append(file, frame)

\* What the trajectory file may hold when the program starts: nothing, or the
\* frames a previous run left behind.
OldTrajectories == {<<>>, <<0>>, <<0, 0>>}

\* The ways a batch can end: normally, or with the engine reporting an
\* unrecoverable state (an exception or exit out of operator+=).
EngineOutcomes == {"ok", "fatal"}

(***************************************************************************)
(* printf("%9.4e", v): v rounded to five significant digits.               *)
(***************************************************************************)
RECURSIVE Pow10(_)
Pow10(n) == IF n = 0 THEN 1 ELSE 10 * Pow10(n - 1)

RECURSIVE Digits(_)
Digits(v) == IF v < 10 THEN 1 ELSE 1 + Digits(v \div 10)

\* Ties are rounded to the even fifth digit, as printf rounds an exact tie.
FormatE4(v) ==
    LET n == Digits(v)
        q == IF n > 5 THEN Pow10(n - 5) ELSE 1
        m == v \div q
        rem == v % q
        up == 2 * rem > q \/ (2 * rem = q /\ m % 2 = 1)
    IN  (IF up THEN m + 1 ELSE m) * q

\* The sweeps value printed in iteration n: one batch too few.
SweepsValueOffByOne(n) == FormatE4(n * sweepsPerBatch)

\* ((double) (i+1)*1000) as printed by "%9.4e".
SweepsValue(n) == FormatE4((n + 1) * sweepsPerBatch)

\* The isFirstFrame argument when every frame is written as a first frame.
IsFirstFrameAlways(n) == TRUE

\* if (i == 0) append(..., true); else append(..., false);
IsFirstFrame(n) == n = 0

\* A driver that swallows the engine's failure and carries on.
StepOutcomePcSwallow(outcome) == After("step")

\* Line 270 is in no try block: a failure of the engine leaves the loop and main.
StepOutcomePc(outcome) == IF outcome = "fatal" THEN "aborted" ELSE After("step")

(***************************************************************************)
(* The driver: set-up.                                                     *)
(***************************************************************************)
\* The state after the program is started: nothing has been executed.
InitDriver ==
    /\ pc = "setup"
    /\ ip = 1
    /\ i = 0
    /\ events = <<>>
    /\ vmdCalls = 0
    /\ boxSize = [o \in Owners |-> <<>>]
    /\ numCells = [o \in Owners |-> <<>>]
    /\ movesRequested = 0
    /\ batches = 0
    /\ stepped = <<>>
    /\ traj \in OldTrajectories
    /\ flagLog = <<>>
    /\ truncations = 0
    /\ report = <<>>
    /\ failedBatch = 0

\* The set-up statement at the instruction pointer is statement `what` of owner o.
AtSetup(o, what) ==
    /\ pc = "setup"
    /\ ip <= Len(ProgramOf(entry))
    /\ ProgramOf(entry)[ip] = <<o, what>>

\* Move past the current set-up statement; after the last one the loop is entered
\* with i = 0.
Advance(o, what) ==
    /\ events' = Append(events, <<o, what>>)
    /\ ip' = ip + 1
    /\ pc' = IF ip = Len(ProgramOf(entry)) THEN LoopTest(0) ELSE "setup"
    /\ UNCHANGED <<entry, i, movesRequested, batches, stepped, traj, flagLog, truncations,
                   report,
                   failedBatch, cellVars>>

\* baseLength = pow(...); boxSize.push_back(baseLength) for every dimension.
ComputeBoxSize(o) ==
    /\ AtSetup(o, "boxSize")
    /\ boxSize' = [boxSize EXCEPT ![o] = BoxSizeVec]
    /\ Advance(o, "boxSize")
    /\ UNCHANGED <<vmdCalls, numCells>>

\* io.vmdScript(boxSize);
VmdScript(o) ==
    /\ AtSetup(o, "vmdScript")
    /\ vmdCalls' = vmdCalls + 1
    /\ Advance(o, "vmdScript")
    /\ UNCHANGED <<boxSize, numCells>>

\* cells.setDimension(dimension); cells.initialise(box.boxSize, 1 + 0.5*interactionRange);
CellsInitialise(o) ==
    /\ AtSetup(o, "cellsInitialise")
    /\ numCells' = [numCells EXCEPT ![o] = CellListInitialise(boxSize[o], cutOff)]
    /\ Advance(o, "cellsInitialise")
    /\ UNCHANGED <<vmdCalls, boxSize>>

\* PatchyDisc patchyDisc(box, particles, cells, ...);
ConstructModel(o) ==
    /\ AtSetup(o, "patchyDisc")
    /\ Advance(o, "patchyDisc")
    /\ UNCHANGED <<vmdCalls, boxSize, numCells>>

\* initialise.random(particles, cells, box, rng, false);
InitialiseRandom(o) ==
    /\ AtSetup(o, "initialiseRandom")
    /\ Advance(o, "initialiseRandom")
    /\ UNCHANGED <<vmdCalls, boxSize, numCells>>

\* The loop copying positions and orientations into coordinates[] / orientations[].
CopyCoordinates(o) ==
    /\ AtSetup(o, "copyCoordinates")
    /\ Advance(o, "copyCoordinates")
    /\ UNCHANGED <<vmdCalls, boxSize, numCells>>

\* callbacks.<cb> = std::bind(&PatchyDisc::..., patchyDisc, ...);
RegisterCallback(o, cb) ==
    /\ AtSetup(o, cb)
    /\ Advance(o, cb)
    /\ UNCHANGED <<vmdCalls, boxSize, numCells>>

\* vmmc::VMMC vmmc(nParticles, dimension, coordinates, orientations, ..., callbacks);
ConstructEngine(o) ==
    /\ AtSetup(o, "vmmc")
    /\ Advance(o, "vmmc")
    /\ UNCHANGED <<vmdCalls, boxSize, numCells>>

(***************************************************************************)
(* The driver: the reporting loop of main (lines 267-283).                 *)
(***************************************************************************)
\* vmmc += 10*nParticles;  The engine runs the whole batch before returning.
\* In execute() the same statement steps the member engine.
StepBatch(outcome) ==
    /\ pc = "step"
    /\ movesRequested' = movesRequested + movesPerBatch
    /\ batches' = batches + 1
    /\ stepped' = SteppedEngine(entry)
    /\ failedBatch' = IF outcome = "fatal" THEN batches + 1 ELSE failedBatch
    /\ pc' = StepOutcomePc(outcome)
    /\ UNCHANGED <<entry, ip, i, events, vmdCalls, boxSize, numCells, traj, flagLog,
                   truncations, report, cellVars>>

\* io.appendXyzTrajectory(dimension, particles, i == 0);
AppendFrame ==
    /\ pc = "append"
    /\ traj' = AppendXyzTrajectory(traj, movesRequested, IsFirstFrame(i))
    /\ flagLog' = Append(flagLog, IsFirstFrame(i))
    /\ truncations' = truncations + (IF IsFirstFrame(i) THEN 1 ELSE 0)
    /\ pc' = After("append")
    /\ UNCHANGED <<entry, ip, i, events, vmdCalls, boxSize, numCells, movesRequested,
                   batches, stepped, report, failedBatch, cellVars>>

\* printf("sweeps = %9.4e, energy = %5.4f\n", ((double) (i+1)*1000), ...);
Report ==
    /\ pc = "report"
    /\ report' = Append(report, SweepsValue(i))
    /\ pc' = After("report")
    /\ UNCHANGED <<entry, ip, i, events, vmdCalls, boxSize, numCells, movesRequested,
                   batches, stepped, traj, flagLog, truncations, failedBatch, cellVars>>

\* i++ and the test i < 1000 of the for statement.
LoopNext ==
    /\ pc = "next"
    /\ i' = i + 1
    /\ pc' = LoopTest(i + 1)
    /\ UNCHANGED <<entry, ip, events, vmdCalls, boxSize, numCells, movesRequested, batches,
                   stepped,
                   traj, flagLog, truncations, report, failedBatch, cellVars>>

\* std::cout << "\nComplete!\n"; return (EXIT_SUCCESS);
Complete ==
    /\ pc = "complete"
    /\ pc' = "done"
    /\ UNCHANGED <<entry, ip, i, events, vmdCalls, boxSize, numCells, movesRequested,
                   batches, stepped, traj, flagLog, truncations, report, failedBatch, cellVars>>

(***************************************************************************)
(* Box, CellList, Initialise and the post-move callback, on a small box.   *)
(* Positions lie on a lattice of spacing Step; the box has SitesPerSide    *)
(* lattice sites per side and holds NSmall particles.                      *)
(***************************************************************************)
SitesPerSide == 5

NSmall == 2

MaxTries == 2

\* Lattice spacing: seven eighths of a particle diameter.
Step == (7 * Unit) \div 8

SmallBox == [d \in 1..dimension |-> SitesPerSide * Step]

\* The cell list of the small box, initialised as the driver does (line 207).
SmallCells == CellListInitialise(SmallBox, cutOff)

Sites == {k * Step : k \in 0..(SitesPerSide - 1)}

Positions == [1..dimension -> Sites]

\* Every cell coordinate of the grid.
Cells ==
    LET most == CHOOSE n \in {SmallCells[d] : d \in 1..dimension} :
                    \A d \in 1..dimension : SmallCells[d] <= n
    IN  {c \in [1..dimension -> 0..(most - 1)] :
            \A d \in 1..dimension : c[d] < SmallCells[d]}

Particles == 1..NSmall

\* Box::periodicBoundaries, one coordinate: the canonical periodic image.
Wrap(x, d) == x % SmallBox[d]

\* Box::minimumImage, one coordinate: the representative of b - a (mod box size)
\* of least magnitude.
MinImage(a, b, d) ==
    LET dx == b - a
    IN  IF 2 * dx > SmallBox[d] THEN dx - SmallBox[d]
        ELSE IF 2 * dx < -SmallBox[d] THEN dx + SmallBox[d]
        ELSE dx

RECURSIVE SqNorm(_, _, _)
SqNorm(p, q, d) ==
    IF d = 0 THEN 0
    ELSE MinImage(p[d], q[d], d) * MinImage(p[d], q[d], d) + SqNorm(p, q, d - 1)

\* Centre distance below one particle diameter under minimum-image separation.
Overlap(p, q) == SqNorm(p, q, dimension) < Unit * Unit

\* CellList::getCell: the cell of a position, a function of position and geometry.
cellOf(p) ==
    [d \in 1..dimension |->
        Min(SmallCells[d] - 1, (p[d] * SmallCells[d]) \div SmallBox[d])]

\* The cell itself plus all cells adjacent under periodic wraparound.
neighbours(c) ==
    {[d \in 1..dimension |-> (c[d] + o[d] + SmallCells[d]) % SmallCells[d]] :
        o \in [1..dimension -> {-1, 0, 1}]}

\* CellList::initCell: enter particle k, at position p, into its cell's bucket.
InsertParticle(b, k, p) == [b EXCEPT ![cellOf(p)] = @ \cup {k}]

\* CellList::updateCell: move k between buckets if cellOf differs; no-op otherwise.
UpdateParticle(b, k, oldPos, newPos) ==
    IF cellOf(oldPos) # cellOf(newPos)
    THEN [b EXCEPT ![cellOf(oldPos)] = @ \ {k}, ![cellOf(newPos)] = @ \cup {k}]
    ELSE b

\* A post-move hook bound to something that leaves the cell list alone.
PostMoveCallbackMisbound(b, k, oldPos, newPos) == b

\* callbacks.postMoveCallback = std::bind(&PatchyDisc::applyPostMoveUpdates, ...):
\* the engine's post-move hook is the model's cell-list update.
PostMoveCallback(b, k, oldPos, newPos) == UpdateParticle(b, k, oldPos, newPos)

\* The already-placed particles the cell list offers around position p.
NeighbourParticles(b, p) == UNION {b[c] : c \in neighbours(cellOf(p))}

\* Initialise::checkOverlap: does candidate p overlap a neighbour?
CandidateOverlaps(b, ps, p) == \E j \in NeighbourParticles(b, p) : Overlap(p, ps[j])

\* Particles not yet placed have no position.
Unplaced == <<>>

InitCells ==
    /\ phase = "placing"
    /\ placed = 0
    /\ pos = [k \in Particles |-> Unplaced]
    /\ bucket = [c \in Cells |-> {}]
    /\ tries = 0
    /\ lastMove = <<>>

\* Initialise::random, one accepted trial insertion of particle placed + 1.
PlaceAccept(p) ==
    /\ phase = "placing"
    /\ ~CandidateOverlaps(bucket, pos, p)
    /\ pos' = [pos EXCEPT ![placed + 1] = p]
    /\ bucket' = InsertParticle(bucket, placed + 1, p)
    /\ placed' = placed + 1
    /\ tries' = 0
    /\ phase' = IF placed + 1 = NSmall THEN "placed" ELSE "placing"
    /\ UNCHANGED <<lastMove, driverVars>>

\* Initialise::random, one rejected trial insertion: retry with a fresh draw, or
\* fail once the retry budget is used up.
PlaceReject(p) ==
    /\ phase = "placing"
    /\ CandidateOverlaps(bucket, pos, p)
    /\ tries' = tries + 1
    /\ phase' = IF tries + 1 >= MaxTries THEN "initError" ELSE "placing"
    /\ UNCHANGED <<placed, pos, bucket, lastMove, driverVars>>

\* The engine accepts a trial move of particle k by one lattice step along
\* dimension d and invokes the post-move callback:
\* PatchyDisc::applyPostMoveUpdates stores the position and updates the cell list.
AcceptMove(k, d, s) ==
    LET newPos == [pos[k] EXCEPT ![d] = Wrap(@ + s * Step + SmallBox[d], d)]
    IN  /\ phase = "placed"
        /\ \A j \in Particles \ {k} : ~Overlap(newPos, pos[j])
        /\ pos' = [pos EXCEPT ![k] = newPos]
        /\ bucket' = PostMoveCallback(bucket, k, pos[k], newPos)
        /\ lastMove' = <<k, cellOf(pos[k]) # cellOf(newPos)>>
        /\ UNCHANGED <<phase, placed, tries, driverVars>>

(***************************************************************************)
(* Specifications.                                                         *)
(***************************************************************************)
Init == entry = "main" /\ InitDriver /\ InitCells

Next ==
    \/ \E o \in Owners : ComputeBoxSize(o)
    \/ \E o \in Owners : VmdScript(o)
    \/ \E o \in Owners : CellsInitialise(o)
    \/ \E o \in Owners : ConstructModel(o)
    \/ \E o \in Owners : InitialiseRandom(o)
    \/ \E o \in Owners : CopyCoordinates(o)
    \/ \E o \in Owners : \E n \in DOMAIN CallbackNames : RegisterCallback(o, CallbackNames[n])
    \/ \E o \in Owners : ConstructEngine(o)
    \/ \E outcome \in EngineOutcomes : StepBatch(outcome)
    \/ AppendFrame
    \/ Report
    \/ LoopNext
    \/ Complete

\* The whole program: set-up by the constructor and by main, then the loop.
Spec == Init /\ [][Next]_vars

\* The loop entered through either function.
InitEntries == entry \in {"main", "execute"} /\ InitDriver /\ InitCells

\* main, or a caller running `PatchyDiscEnv env(3,4); env.execute();`.
SpecEntries == InitEntries /\ [][Next]_vars

InitSmall == entry = "main" /\ InitDriver /\ traj = <<>> /\ InitCells

NextCells ==
    \/ \E p \in Positions : PlaceAccept(p)
    \/ \E p \in Positions : PlaceReject(p)
    \/ \E k \in Particles : \E d \in 1..dimension : \E s \in {-1, 1} : AcceptMove(k, d, s)

\* Random initialisation of the small box followed by accepted moves.
SpecCells == InitSmall /\ [][NextCells]_vars

(***************************************************************************)
(* Properties.                                                             *)
(***************************************************************************)
\* Position of set-up statement <<o, what>> in the executed sequence; 0 if it
\* has not been executed.
Idx(o, what) ==
    IF \E k \in 1..Len(events) : events[k] = <<o, what>>
    THEN CHOOSE k \in 1..Len(events) : events[k] = <<o, what>>
    ELSE 0

\* If statement b of owner o has been executed, statement a was executed before it.
Before(o, a, b) == Idx(o, b) > 0 => (Idx(o, a) > 0 /\ Idx(o, a) < Idx(o, b))

CallbackSet == {CallbackNames[n] : n \in DOMAIN CallbackNames}

\* C1: a complete run prints exactly 1000 report lines, the k-th line carries
\* sweeps = 1000*k, and the printed values never decrease.
C1_ReportLines ==
    /\ Len(report) <= 1000
    /\ \A k \in 1..Len(report) : report[k] = 1000 * k
    /\ \A k \in 1..(Len(report) - 1) : report[k] <= report[k + 1]
    /\ pc = "done" => Len(report) = 1000

\* C1 witness: the run is complete and the last line reads 1,000,000.
C1_Witness == entry = "main" /\ pc = "done" /\ Len(report) = 1000 /\ report[1000] = 1000000

\* C2: on every report line the sweeps value equals the number of elementary
\* moves requested from the engine up to and including that batch.
C2_SweepsAreMoves == \A k \in 1..Len(report) : report[k] = k * movesPerBatch

\* C3: once the engine has reported an unrecoverable state in a batch, the
\* driver has left the loop: that batch is the last one requested, and no frame
\* and no report line exists beyond those of the batches before it.
C3_FailureStops ==
    failedBatch > 0 =>
        /\ pc = "aborted"
        /\ batches = failedBatch
        /\ movesRequested = failedBatch * movesPerBatch
        /\ Len(flagLog) = failedBatch - 1
        /\ Len(report) = failedBatch - 1

\* C3 witness: the engine failed in the third batch, after two full iterations.
C3_Witness == failedBatch = 3 /\ pc = "aborted" /\ Len(report) = 2

\* C4: the loop is strictly sequential: the batch, then exactly one frame, then
\* exactly one report line, and only then the next batch.
C4_Sequential ==
    /\ Len(report) <= Len(flagLog)
    /\ Len(flagLog) <= batches
    /\ batches <= Len(report) + 1
    /\ pc = "step" => (batches = i /\ Len(flagLog) = i /\ Len(report) = i)
    /\ pc = "append" => (batches = i + 1 /\ Len(flagLog) = i /\ Len(report) = i)
    /\ pc = "report" => (batches = i + 1 /\ Len(flagLog) = i + 1 /\ Len(report) = i)
    /\ pc = "next" => (batches = i + 1 /\ Len(flagLog) = i + 1 /\ Len(report) = i + 1)

\* C4 witness: the second iteration has stepped and appended and is about to report.
C4_Witness == pc = "report" /\ i = 1 /\ batches = 2 /\ Len(flagLog) = 2 /\ Len(report) = 1

\* C5: isFirstFrame is true on the first call of the trajectory writer and false
\* on every later one, the file is truncated exactly once, and it holds one
\* frame per completed batch.
C5_FirstFrameOnce ==
    /\ \A k \in 1..Len(flagLog) : flagLog[k] = (k = 1)
    /\ truncations = IF Len(flagLog) > 0 THEN 1 ELSE 0
    /\ Len(flagLog) > 0 => Len(traj) = Len(flagLog)
    /\ \A k \in 1..Len(flagLog) : traj[k] = k * movesPerBatch
    /\ pc \in {"report", "next"} => Len(traj) = batches
    /\ pc = "done" => Len(traj) = 1000

\* C5 witness: a complete run of execute() over a file that was truncated once.
C5_Witness == entry = "execute" /\ pc = "done" /\ truncations = 1 /\ Len(traj) = 1000 /\ flagLog[2] = FALSE

\* C6: every placed particle is in exactly one cell bucket, the bucket of
\* cellOf(its current position), also right after applyPostMoveUpdates.
C6_BucketsMatchCells ==
    \A k \in Particles : \A c \in Cells :
        k \in bucket[c] <=> (k <= placed /\ c = cellOf(pos[k]))

\* C6 witness: the latest accepted move took its particle across a cell boundary.
C6_Witness == lastMove # <<>> /\ lastMove[2] /\ phase = "placed"

\* C7: during and after random initialisation no two placed particles have
\* centre distance below one diameter (minimum image).
C7_NoOverlapAfterInit ==
    lastMove = <<>> =>
        \A j \in 1..placed : \A k \in 1..placed : j # k => ~Overlap(pos[j], pos[k])

\* C7 witness: initialisation is complete, with two particles in different cells
\* that are neighbours only through the periodic boundary.
C7_Witness ==
    /\ phase = "placed"
    /\ lastMove = <<>>
    /\ placed = NSmall
    /\ cellOf(pos[1])[1] = 0
    /\ cellOf(pos[2])[1] = SmallCells[1] - 1

\* C8: the visualization script emitter is invoked exactly once per run, before
\* the first engine step.
C8_VmdScriptOnce ==
    /\ vmdCalls <= 1
    /\ batches > 0 => vmdCalls = 1

\* C9 as claimed: the initialiser runs, then the model is constructed, then the
\* callbacks are registered, then the engine is constructed, then the first batch.
C9_InitBeforeModel ==
    /\ \A o \in Owners : Before(o, "initialiseRandom", "patchyDisc")
    /\ \A o \in Owners : \A cb \in CallbackSet : Before(o, "patchyDisc", cb)
    /\ \A o \in Owners : \A cb \in CallbackSet : Before(o, cb, "vmmc")
    /\ \A o \in Owners : Before(o, "copyCoordinates", "vmmc")
    /\ batches > 0 => (stepped = <<"main", "vmmc">> /\ Idx("main", "vmmc") > 0)

\* C9 amended: the model is constructed, then the initialiser populates the
\* particle store, then the positions are copied and the four callbacks are
\* registered, then the engine is constructed, and only then is the first batch
\* requested.
C9_SetupOrder ==
    /\ \A o \in Owners : Before(o, "patchyDisc", "initialiseRandom")
    /\ \A o \in Owners : Before(o, "initialiseRandom", "copyCoordinates")
    /\ \A o \in Owners : \A cb \in CallbackSet : Before(o, "initialiseRandom", cb)
    /\ \A o \in Owners : \A cb \in CallbackSet : Before(o, cb, "vmmc")
    /\ \A o \in Owners : Before(o, "copyCoordinates", "vmmc")
    /\ batches > 0 => (stepped = <<"main", "vmmc">> /\ Idx("main", "vmmc") > 0)

\* C9 witness: the first batch has been requested from main's engine.
C9_Witness == batches = 1 /\ Idx("main", "vmmc") = Len(SetupProgram)

\* C10 as claimed: every cell side, boxSize[d] / numCells[d], is at least
\* 1 + interactionRange.
C10_CellSideCoversRange ==
    \A o \in Owners : \A d \in DOMAIN numCells[o] :
        boxSize[o][d] >= numCells[o][d] * (Unit + interactionRange)

\* C10 amended: every cell side, boxSize[d] / numCells[d], is at least the
\* cut-off 1 + 0.5*interactionRange.
C10_CellSideCoversCutOff ==
    \A o \in Owners : \A d \in DOMAIN numCells[o] :
        boxSize[o][d] * 2 >= numCells[o][d] * (2 * Unit + interactionRange)

\* C10 witness: main's cell list is initialised with 59 cells per dimension over
\* a box side of 62.66.
C10_Witness ==
    /\ DOMAIN numCells["main"] = 1..2
    /\ numCells["main"][1] = 59
    /\ boxSize["main"][1] = 6266

====
